---- MODULE Spec2Model ----
(***************************************************************************)
(* Registry and build_from_cfg of utils/registry.py.                       *)
(*                                                                         *)
(* One Registry instance ('models', as in the tests' fixtures) is operated *)
(* through register_module, get and build_from_cfg.  Every action is one   *)
(* whole call; its outcome (returned value or raised exception) is kept in *)
(* ret, so that the properties can speak about what the caller observes.   *)
(***************************************************************************)
EXTENDS Integers, Sequences, FiniteSets, TLC

(***************************************************************************)
(* Python values.  Every value is a record                                 *)
(*   t : the name of its type, as type(v).__name__                         *)
(*   s : its string content / its __name__                                 *)
(*   n : its integer content / its object identity                         *)
(*   f : its items (dict) or its instance attributes (object)              *)
(***************************************************************************)
EmptyMap == [k \in {} |-> 0]

PyNone == [t |-> "NoneType", s |-> "", n |-> 0, f |-> EmptyMap]

PyStr(str) == [t |-> "str", s |-> str, n |-> 0, f |-> EmptyMap]

PyInt(i) == [t |-> "int", s |-> "", n |-> i, f |-> EmptyMap]

\* A float, kept as its literal.
PyFloat(lit) == [t |-> "float", s |-> lit, n |-> 0, f |-> EmptyMap]

PyList(i) == [t |-> "list", s |-> "", n |-> i, f |-> EmptyMap]

PyDict(items) == [t |-> "dict", s |-> "", n |-> 0, f |-> items]

PyFunction(nm, i) == [t |-> "function", s |-> nm, n |-> i, f |-> EmptyMap]

PyClass(nm, i) == [t |-> "type", s |-> nm, n |-> i, f |-> EmptyMap]

PyObject(cls, attrs) == [t |-> cls.s, s |-> "", n |-> cls.n, f |-> attrs]

\* f"{type(v)}"
TypeRepr(v) == <<"<class '", v.t, "'>">>

Range(seq) == {seq[i] : i \in DOMAIN seq}

(***************************************************************************)
(* The classes offered for registration: the fixtures' ModelA and ModelB,  *)
(* and further classes that reuse those names (a second class statement    *)
(* with the same name makes a distinct class object with the same          *)
(* __name__).  Class i is named ClassNames[((i - 1) % 2) + 1].             *)
(***************************************************************************)
MaxClassId == 3

ClassNames == <<"ModelA", "ModelB">>

ClassOf(i) == PyClass(ClassNames[((i - 1) % Len(ClassNames)) + 1], i)

Classes == {ClassOf(i) : i \in 1..MaxClassId}

\* What the tests hand to register_module besides classes, a plain function and
\* an instance.
NonClasses ==
    { PyStr("not a class"), PyInt(123), PyFunction("ModelA", 0),
      PyObject(ClassOf(1), EmptyMap) }

Keys == {"ModelA", "ModelB", "NonExistentModel"}

(***************************************************************************)
(* dict, kept in insertion order as Python keeps it: a sequence of items   *)
(* [k, v] with pairwise distinct keys.                                     *)
(***************************************************************************)
DictKeys(d) == {d[i].k : i \in DOMAIN d}

DictIndex(d, key) == CHOOSE i \in DOMAIN d : d[i].k = key

\* key in d
DictContains(d, key) == key \in DictKeys(d)

\* d.get(key, None)
DictGet(d, key) ==
    IF DictContains(d, key) THEN d[DictIndex(d, key)].v ELSE PyNone

\* d[key] = value
DictSetItem(d, key, value) ==
    IF DictContains(d, key)
    THEN [d EXCEPT ![DictIndex(d, key)].v = value]
    ELSE Append(d, [k |-> key, v |-> value])

\* del d[key], for a key of d
DictDelItem(d, key) ==
    LET i == DictIndex(d, key)
    IN  SubSeq(d, 1, i - 1) \o SubSeq(d, i + 1, Len(d))

(***************************************************************************)
(* State.                                                                  *)
(***************************************************************************)
VARIABLES
    _name,          \* Registry._name
    _module_dict,   \* Registry._module_dict
    op,             \* the call made last
    arg,            \* its argument: the value registered, the key looked up,
                    \* the spec as it was when build_from_cfg was called
    extra,          \* the rest of the call: how build_from_cfg was called and
                    \* with which defaults, what a caller did to an accessor's value
    cfg,            \* the caller's spec object as it is after build_from_cfg
    calls,          \* the constructor calls build_from_cfg made: <<[cls, kwargs]>>
    lookups,        \* the keys build_from_cfg looked up in the registry
    ret,            \* its outcome: [exc, msg, val]
    _cfg_dict,      \* Config._cfg_dict, None while no Config has been made
    _filename,      \* Config._filename
    node,           \* the node of the configuration tree the last call addressed:
                    \* the keys that lead to it from the root
    executed,       \* the statements of the script the last from_file executed
    transforms,     \* Pipeline.transforms
    applied,        \* the transform calls the last Pipeline call made:
                    \* <<[transform, input, output]>>
    rng,            \* the draws the library's random stream gave the last
                    \* transform call
    frames,         \* the Pipeline calls in progress, one frame a caller
    dataset         \* the dataset held, None while none has been made

configVars == <<_cfg_dict, _filename, node, executed>>

pipelineVars == <<transforms, applied>>

datasetVars == <<rng, frames, dataset>>

vars ==
    <<_name, _module_dict, op, arg, extra, cfg, calls, lookups, ret, configVars,
      pipelineVars, datasetVars>>

NoExtra == [conv |-> "", defaults |-> PyNone]

\* What a call other than build_from_cfg leaves in the builder's variables.
NotABuild ==
    /\ extra' = NoExtra
    /\ cfg' = PyNone
    /\ calls' = <<>>
    /\ lookups' = <<>>

Returned(v) == [exc |-> "", msg |-> <<>>, val |-> v]

Raised(e, m) == [exc |-> e, msg |-> m, val |-> PyNone]

(***************************************************************************)
(* Registry                                                                *)
(***************************************************************************)
\* Variant: anything that has a __name__ passes (hasattr(module_class, '__name__')).
IsClass_anyNamed(v) == v.t \in {"type", "function"}

\* isinstance(module_class, type)
IsClass(v) == v.t = "type"

\* Variant: the duplicate check left out.
AlreadyRegistered_never(md, module_name) == FALSE

\* module_name in self._module_dict
AlreadyRegistered(md, module_name) == DictContains(md, module_name)

\* Registry._register_module: the mapping afterwards and the exception raised.
_register_module(md, nm, module_class) ==
    IF ~IsClass(module_class)
    THEN [md |-> md,
          out |-> Raised("TypeError",
                         <<"module must be a class, but got ">>
                             \o TypeRepr(module_class))]
    ELSE LET module_name == module_class.s
         IN  IF AlreadyRegistered(md, module_name)
             THEN [md |-> md,
                   out |-> Raised("KeyError",
                                  <<module_name, " is already registered in ", nm>>)]
             ELSE [md |-> DictSetItem(md, module_name, module_class),
                   out |-> Returned(PyNone)]

\* Variant: the final "return cls" left out, so the call returns None.
register_module_noReturn(md, nm, cls) == _register_module(md, nm, cls)

\* Registry.register_module: returns cls when _register_module did not raise.
register_module(md, nm, cls) ==
    LET r == _register_module(md, nm, cls)
    IN  IF r.out.exc # "" THEN r ELSE [md |-> r.md, out |-> Returned(cls)]

\* Variant: self._module_dict[key], which raises for a missing key.
get_subscript(md, key) ==
    IF DictContains(md, key)
    THEN Returned(DictGet(md, key))
    ELSE Raised("KeyError", <<key>>)

\* Registry.get
get(md, key) == Returned(DictGet(md, key))

\* The properties of Registry that define a setter: name and module_dict are
\* declared with @property alone.
PropertySetters == {}

\* Variant: the attribute is a plain attribute, so assignment rebinds it.
set_property_plain(md, nm, attr, value) ==
    [md |-> IF attr = "module_dict" THEN <<>> ELSE md,
     nm |-> IF attr = "name" THEN value.s ELSE nm,
     out |-> Returned(PyNone)]

\* registry.<attr> = value: a property without a setter raises AttributeError.
set_property(md, nm, attr, value) ==
    IF attr \in PropertySetters
    THEN set_property_plain(md, nm, attr, value)
    ELSE [md |-> md, nm |-> nm,
          out |-> Raised("AttributeError",
                         <<"property '", attr, "' of 'Registry' object has no setter">>)]

\* Registry.name: the value it returns.
name(nm) == PyStr(nm)

\* Variant: the property returns a copy of the dict.
module_dict_copy(ref) == "copy"

\* Registry.module_dict: the object it returns, which is self._module_dict
\* itself.
module_dict(ref) == ref

(***************************************************************************)
(* Constructors.  The fixtures' classes:                                   *)
(*   ModelA.__init__(self, param1=10)                                      *)
(*   ModelB.__init__(self, param1, param2=20)                              *)
(***************************************************************************)
ParamDefault1 == 10

ParamDefault2 == 20

\* The parameters without a default.
Required(cls) ==
    IF cls.s = "ModelB" THEN {"param1"}
    ELSE IF cls.s \in {"Resize", "CenterCrop", "RandomCrop"} THEN {"height", "width"}
    ELSE IF cls.s = "Normalize" THEN {"mean", "std"}
    ELSE IF cls.s = "CamVid"
    THEN {"img_dir", "label_dir", "split_file", "dataset_info_path"}
    ELSE IF cls.s \in {"BaseDataset", "MyDataset"} THEN {"data_root", "split"}
    ELSE {}

\* The parameters with a default, and their defaults.
Defaults(cls) ==
    IF cls.s = "ModelB"
    THEN [k \in {"param2"} |-> PyInt(ParamDefault2)]
    ELSE IF cls.s = "ModelA"
    THEN [k \in {"param1"} |-> PyInt(ParamDefault1)]
    ELSE IF cls.s \in {"HorizontalFlip", "VerticalFlip"}
    THEN [k \in {"p"} |-> PyFloat("0.5")]
    ELSE IF cls.s = "ColorJitter"
    THEN [k \in {"brightness", "contrast", "saturation", "hue", "p"} |->
             PyFloat(IF k = "hue" THEN "0.1" ELSE IF k = "p" THEN "0.5" ELSE "0.2")]
    ELSE IF cls.s = "RandomRotate"
    THEN [k \in {"limit", "p"} |-> IF k = "p" THEN PyFloat("0.5") ELSE PyInt(10)]
    ELSE IF cls.s = "RandomBrightnessContrast"
    THEN [k \in {"brightness_limit", "contrast_limit", "p"} |->
             PyFloat(IF k = "p" THEN "0.5" ELSE "0.2")]
    ELSE IF cls.s = "GaussianBlur"
    THEN [k \in {"blur_limit", "p"} |-> IF k = "p" THEN PyFloat("0.5") ELSE PyInt(7)]
    ELSE IF cls.s = "CamVid"
    THEN [k \in {"processes", "cfg"} |-> PyNone]
    ELSE IF cls.s \in {"BaseDataset", "MyDataset"}
    THEN [k \in {"processes"} |-> PyNone]
    ELSE EmptyMap

\* cls(**kwargs): Python binds the keywords to the parameters of __init__, which
\* stores each parameter as the attribute of the same name.
Instantiate(cls, kwargs) ==
    LET unexpected == DOMAIN kwargs \ (Required(cls) \cup DOMAIN Defaults(cls))
        missing == Required(cls) \ DOMAIN kwargs
    IN  IF unexpected # {}
        THEN Raised("TypeError",
                    <<cls.s, ".__init__() got an unexpected keyword argument '",
                      CHOOSE k \in unexpected : TRUE, "'">>)
        ELSE IF missing # {}
        THEN Raised("TypeError",
                    <<cls.s, ".__init__() missing 1 required positional argument: '",
                      CHOOSE k \in missing : TRUE, "'">>)
        ELSE Returned(PyObject(cls, kwargs @@ Defaults(cls)))

(***************************************************************************)
(* build_from_cfg                                                          *)
(***************************************************************************)
\* Variant: the check left out.
IsDict_any(v) == TRUE

\* isinstance(cfg, dict); ConfigDict is a subclass of dict.
IsDict(v) == v.t \in {"dict", "ConfigDict"}

\* Variant: the check left out.
IsStr_any(v) == TRUE

\* isinstance(obj_type, str)
IsStr(v) == v.t = "str"

\* Variant: args = cfg, which names the caller's dict.
DictCopy_alias(ref) == ref

\* cfg.copy(): the object that args names.  dict.copy makes a new dict.
DictCopy(ref) == "args"

\* Variant: args['type'], which reads the key and leaves it in.
DictPop_keep(items, key) == items

\* d.pop(key), for a key of d: the items left.
DictPop(items, key) == [k \in DOMAIN items \ {key} |-> items[k]]

\* Variant: the message ends without the registered keys.
KeysRepr_none(d) == <<"[", "]">>

\* f"{list(d.keys())}"
KeysRepr(d) ==
    <<"[">> \o [i \in DOMAIN d |-> d[i].k] \o <<"]">>

\* The body of build_from_cfg(cfg, registry).  The dicts it works on live in a
\* heap of two objects, the caller's spec ("cfg") and the one args names, so
\* that what happens to the caller's object is a result of the function.
\* Result: the outcome, the caller's spec afterwards, the constructor calls made
\* and the registry keys looked up.
build_from_cfg(cfgv, md, nm) ==
    IF ~IsDict(cfgv)
    THEN [out |-> Raised("TypeError",
                         <<"cfg must be a dict, but got ">> \o TypeRepr(cfgv)),
          cfg |-> cfgv, calls |-> <<>>, lookups |-> <<>>]
    ELSE IF "type" \notin DOMAIN cfgv.f
    THEN [out |-> Raised("KeyError", <<"cfg must contain the key 'type'">>),
          cfg |-> cfgv, calls |-> <<>>, lookups |-> <<>>]
    ELSE
    LET args == DictCopy("cfg")
        heap0 == [r \in {"cfg", "args"} |-> cfgv.f]
        obj_type == heap0[args]["type"]
        heap1 == [heap0 EXCEPT ![args] = DictPop(@, "type")]
        after == PyDict(heap1["cfg"])
    IN  IF ~IsStr(obj_type)
        THEN [out |-> Raised("TypeError",
                             <<"type must be a str, but got ">> \o TypeRepr(obj_type)),
              cfg |-> after, calls |-> <<>>, lookups |-> <<>>]
        ELSE
        LET found == get(md, obj_type.s)
            obj_cls == found.val
        IN  IF found.exc # ""
            THEN [out |-> found, cfg |-> after, calls |-> <<>>,
                  lookups |-> <<obj_type.s>>]
            ELSE IF obj_cls = PyNone
            THEN [out |-> Raised("KeyError",
                                 <<"'", obj_type.s, "' is not in the '", nm,
                                   "' registry. ", "Available: ">> \o KeysRepr(md)),
                  cfg |-> after, calls |-> <<>>, lookups |-> <<obj_type.s>>]
            ELSE [out |-> Instantiate(obj_cls, heap1[args]),
                  cfg |-> after,
                  calls |-> <<[cls |-> obj_cls, kwargs |-> heap1[args]]>>,
                  lookups |-> <<obj_type.s>>]

\* def build_from_cfg(cfg, registry): the parameters a call can bind.
BuildParams == {"cfg", "registry"}

\* The keywords a call passes besides cfg and registry: none, default_args=...,
\* or the defaults themselves as keywords.
PassedKeywords(x) ==
    IF x.conv = "default_args" THEN {"default_args"}
    ELSE IF x.conv = "kwargs" THEN DOMAIN x.defaults.f
    ELSE {}

\* The call build_from_cfg(cfg, registry, ...): Python binds the arguments to
\* the parameters before the body runs.
call_build_from_cfg(cfgv, x, md, nm) ==
    LET unexpected == PassedKeywords(x) \ BuildParams
    IN  IF unexpected # {}
        THEN [out |-> Raised("TypeError",
                             <<"build_from_cfg() got an unexpected keyword argument '",
                               CHOOSE k \in unexpected : TRUE, "'">>),
              cfg |-> cfgv, calls |-> <<>>, lookups |-> <<>>]
        ELSE build_from_cfg(cfgv, md, nm)

(***************************************************************************)
(* The specs and the calls the builder is tried on.                        *)
(***************************************************************************)
CfgFields == {"type", "param1", "param2"}

TypeVals ==
    {PyStr("ModelA"), PyStr("ModelB"), PyStr("NonExistentModel"), PyInt(123)}

ParamVals == {PyInt(50), PyInt(60)}

FieldVals(k) == IF k = "type" THEN TypeVals ELSE ParamVals

CfgItems ==
    {m \in UNION {[S -> TypeVals \cup ParamVals] : S \in SUBSET CfgFields} :
        \A k \in DOMAIN m : m[k] \in FieldVals(k)}

CfgInputs ==
    {PyDict(m) : m \in CfgItems} \cup {PyStr("not a dict"), PyList(3)}

DefaultItems ==
    { [k \in {"param1"} |-> PyInt(200)],
      [k \in {"param1", "param2"} |-> IF k = "param1" THEN PyInt(100) ELSE PyInt(200)] }

CallShapes ==
    {[conv |-> "positional", defaults |-> PyNone]}
    \cup {[conv |-> "default_args", defaults |-> d] :
            d \in {PyNone, PyStr("invalid")} \cup {PyDict(m) : m \in DefaultItems}}
    \cup {[conv |-> "kwargs", defaults |-> PyDict(m)] :
            m \in DefaultItems \cup {EmptyMap}}

Init ==
    /\ _name = "models"
    /\ _module_dict = <<>>
    /\ op = "init"
    /\ arg = PyNone
    /\ extra = NoExtra
    /\ cfg = PyNone
    /\ calls = <<>>
    /\ lookups = <<>>
    /\ ret = Returned(PyNone)
    /\ _cfg_dict = PyNone
    /\ _filename = PyNone
    /\ node = <<>>
    /\ executed = <<>>
    /\ transforms = <<>>
    /\ applied = <<>>
    /\ rng = <<>>
    /\ frames = <<>>
    /\ dataset = PyNone

RegisterModule ==
    \E cls \in Classes \cup NonClasses :
        LET r == register_module(_module_dict, _name, cls)
        IN  /\ op' = "register_module"
            /\ arg' = cls
            /\ _module_dict' = r.md
            /\ ret' = r.out
            /\ NotABuild
            /\ UNCHANGED <<_name, configVars, pipelineVars, datasetVars>>

Get ==
    \E key \in Keys :
        /\ op' = "get"
        /\ arg' = PyStr(key)
        /\ ret' = get(_module_dict, key)
        /\ NotABuild
        /\ UNCHANGED <<_name, _module_dict, configVars, pipelineVars, datasetVars>>

BuildFromCfg ==
    \E cfgv \in CfgInputs, x \in CallShapes :
        LET r == call_build_from_cfg(cfgv, x, _module_dict, _name)
        IN  /\ op' = "build_from_cfg"
            /\ arg' = cfgv
            /\ extra' = x
            /\ cfg' = r.cfg
            /\ calls' = r.calls
            /\ lookups' = r.lookups
            /\ ret' = r.out
            /\ UNCHANGED <<_name, _module_dict, configVars, pipelineVars, datasetVars>>

Next ==
    \/ RegisterModule
    \/ Get
    \/ BuildFromCfg

Spec == Init /\ [][Next]_vars

\* build_from_cfg(cfg, registry) once more, with the spec object and the
\* arguments of the call before.
BuildAgain ==
    /\ op = "build_from_cfg"
    /\ LET r == call_build_from_cfg(cfg, extra, _module_dict, _name)
       IN  /\ op' = "build_again"
           /\ arg' = cfg
           /\ cfg' = r.cfg
           /\ calls' = calls \o r.calls
           /\ lookups' = r.lookups
           /\ ret' = r.out
           /\ UNCHANGED <<_name, _module_dict, extra, configVars, pipelineVars,
                          datasetVars>>

SpecRebuild == Init /\ [][RegisterModule \/ BuildFromCfg \/ BuildAgain]_vars

(***************************************************************************)
(* A caller that, besides registering and looking up, works on the         *)
(* registry's accessors: reads them, assigns to them, and changes the dict *)
(* that module_dict handed out.                                            *)
(***************************************************************************)
ReadName ==
    /\ op' = "read_name"
    /\ arg' = PyNone
    /\ ret' = Returned(name(_name))
    /\ NotABuild
    /\ UNCHANGED <<_name, _module_dict, configVars, pipelineVars, datasetVars>>

ReadModuleDict ==
    /\ op' = "read_module_dict"
    /\ arg' = PyNone
    /\ ret' = Returned([PyDict(EmptyMap) EXCEPT !.s = module_dict("_module_dict")])
    /\ NotABuild
    /\ UNCHANGED <<_name, _module_dict, configVars, pipelineVars, datasetVars>>

AssignProperty ==
    \E a \in {<<"name", PyStr("renamed")>>, <<"module_dict", PyDict(EmptyMap)>>} :
        LET r == set_property(_module_dict, _name, a[1], a[2])
        IN  /\ op' = "assign_property"
            /\ arg' = PyStr(a[1])
            /\ _module_dict' = r.md
            /\ _name' = r.nm
            /\ ret' = r.out
            /\ NotABuild
            /\ UNCHANGED <<configVars, pipelineVars, datasetVars>>

\* What a caller does to a dict: d[key] = value, del d[key], d.clear().
DictMutations(d) ==
    {[conv |-> "setitem", key |-> k, defaults |-> v] :
        k \in Keys, v \in {ClassOf(1), PyNone}}
    \cup {[conv |-> "delitem", key |-> k, defaults |-> PyNone] : k \in DictKeys(d)}
    \cup {[conv |-> "clear", key |-> "", defaults |-> PyNone]}

DictMutate(d, m) ==
    IF m.conv = "setitem" THEN DictSetItem(d, m.key, m.defaults)
    ELSE IF m.conv = "delitem" THEN DictDelItem(d, m.key)
    ELSE <<>>

\* d = registry.module_dict, then a mutation of d: it changes the registry's
\* dict when d is that object.
MutateModuleDict ==
    \E m \in DictMutations(_module_dict) :
        LET d == module_dict("_module_dict")
        IN  /\ op' = "mutate_module_dict"
            /\ arg' = PyStr(m.key)
            /\ extra' = [conv |-> m.conv, defaults |-> m.defaults]
            /\ _module_dict' =
                   IF d = "_module_dict" THEN DictMutate(_module_dict, m)
                   ELSE _module_dict
            /\ ret' = Returned(PyNone)
            /\ cfg' = PyNone
            /\ calls' = <<>>
            /\ lookups' = <<>>
            /\ UNCHANGED <<_name, configVars, pipelineVars, datasetVars>>

NextCaller ==
    \/ RegisterModule
    \/ Get
    \/ ReadName
    \/ ReadModuleDict
    \/ AssignProperty
    \/ MutateModuleDict

SpecCaller == Init /\ [][NextCaller]_vars


(***************************************************************************)
(* utils/config.py: ConfigDict                                             *)
(*                                                                         *)
(* A ConfigDict is the value [t |-> "ConfigDict", f |-> its items]; the    *)
(* order of its keys plays no part in what follows, so f is a function.    *)
(***************************************************************************)
\* The attributes that the type dict defines, which Python finds on every
\* ConfigDict before it falls back on __getattr__.
DictMethods ==
    {"keys", "items", "values", "get", "pop", "popitem", "update", "copy",
     "clear", "setdefault", "fromkeys"}

PyMethod(owner, nm) ==
    [t |-> "builtin_function_or_method", s |-> nm, n |-> 0, f |-> EmptyMap]

RECURSIVE ConfigDict_init(_)

\* Variant: the value is stored as it is given.
ConfigDict_stored_raw(value) == value

\* ConfigDict.__setitem__: the value that gets stored.
ConfigDict_stored(value) ==
    IF IsDict(value) /\ value.t # "ConfigDict"
    THEN ConfigDict_init(value)
    ELSE value

\* ConfigDict.__init__(data): self[key] = value for every item of data.
ConfigDict_init(data) ==
    [t |-> "ConfigDict", s |-> "", n |-> 0,
     f |-> [k \in DOMAIN data.f |-> ConfigDict_stored(data.f[k])]]

\* ConfigDict.__setitem__: the ConfigDict afterwards.
ConfigDict_setitem(d, key, value) ==
    [d EXCEPT !.f = [k \in DOMAIN d.f \cup {key} |->
                        IF k = key THEN ConfigDict_stored(value) ELSE d.f[k]]]

\* dict.__getitem__, which ConfigDict inherits.
ConfigDict_getitem(d, key) ==
    IF key \in DOMAIN d.f THEN Returned(d.f[key]) ELSE Raised("KeyError", <<key>>)

\* ConfigDict.__getattr__
ConfigDict_getattr(d, key) ==
    LET r == ConfigDict_getitem(d, key)
    IN  IF r.exc = "KeyError"
        THEN Raised("AttributeError",
                    <<"'ConfigDict' object has no attribute '", key, "'">>)
        ELSE r

\* d.key on a ConfigDict: Python looks the name up on the type first and calls
\* __getattr__ only when that finds nothing.
ConfigDict_read(d, key) ==
    IF key \in DictMethods THEN Returned(PyMethod(d, key))
    ELSE ConfigDict_getattr(d, key)

\* ConfigDict.__setattr__
ConfigDict_setattr(d, key, value) == ConfigDict_setitem(d, key, value)

\* ConfigDict.__delattr__: the ConfigDict afterwards and the outcome.
ConfigDict_delattr(d, key) ==
    IF key \in DOMAIN d.f
    THEN [d |-> [d EXCEPT !.f = [k \in DOMAIN d.f \ {key} |-> d.f[k]]],
          out |-> Returned(PyNone)]
    ELSE [d |-> d,
          out |-> Raised("AttributeError",
                         <<"'ConfigDict' object has no attribute '", key, "'">>)]

(***************************************************************************)
(* utils/config.py: Config                                                 *)
(***************************************************************************)
\* The names Config.__setattr__ keeps on the object itself.
InternalAttrs == {"_cfg_dict", "_filename"}

\* Config.__init__(cfg_dict, filename): the two attributes and the outcome.
Config_init(cfg_dict, filename) ==
    IF ~IsDict(cfg_dict)
    THEN [cd |-> PyNone, fn |-> PyNone,
          out |-> Raised("TypeError",
                         <<"cfg_dict must be a dict, got ">> \o TypeRepr(cfg_dict))]
    ELSE [cd |-> ConfigDict_init(cfg_dict), fn |-> filename,
          out |-> Returned(PyNone)]

\* The Config object as a value.
ConfigObject(cd, fn) ==
    [t |-> "Config", s |-> "", n |-> 0,
     f |-> [k \in InternalAttrs |-> IF k = "_cfg_dict" THEN cd ELSE fn]]

\* Config.filename
Config_filename(fn) == fn

\* Config.__getattr__
Config_getattr(cd, nm) ==
    LET r == ConfigDict_read(cd, nm)
    IN  IF r.exc = "AttributeError"
        THEN Raised("AttributeError",
                    <<"'Config' object has no attribute '", nm, "'">>)
        ELSE r

\* cfg.nm on a Config: the property filename, the object's own attributes and
\* the class's methods are found first; __getattr__ is called for the rest.
Config_read(cd, fn, nm) ==
    IF nm = "filename" THEN Returned(Config_filename(fn))
    ELSE IF nm = "_filename" THEN Returned(fn)
    ELSE IF nm = "_cfg_dict" THEN Returned(cd)
    ELSE IF nm = "from_file" THEN Returned(PyMethod(cd, nm))
    ELSE Config_getattr(cd, nm)

\* Config.__setitem__: _cfg_dict afterwards.
Config_setitem(cd, nm, value) == ConfigDict_setitem(cd, nm, value)

\* Config.__setattr__: the two attributes afterwards.
Config_setattr(cd, fn, nm, value) ==
    IF nm \in InternalAttrs
    THEN [cd |-> IF nm = "_cfg_dict" THEN value ELSE cd,
          fn |-> IF nm = "_filename" THEN value ELSE fn]
    ELSE [cd |-> ConfigDict_setattr(cd, nm, value), fn |-> fn]

\* Config.__getitem__
Config_getitem(cd, nm) == ConfigDict_getitem(cd, nm)

\* del cfg.nm on a Config.  Config defines no __delattr__, so this is
\* object.__delattr__, which knows the object's own attributes only.
Config_delattr(cd, fn, nm) ==
    IF nm = "filename"
    THEN [d |-> cd,
          out |-> Raised("AttributeError",
                         <<"property '", nm, "' of 'Config' object has no deleter">>)]
    ELSE [d |-> cd,
          out |-> Raised("AttributeError",
                         <<"'Config' object has no attribute '", nm, "'">>)]

(***************************************************************************)
(* Config.from_file.  A path is [stem, ext], its text being stem followed  *)
(* by ext; a script is the sequence of its top-level statements, each      *)
(* binding a name or raising an exception.                                 *)
(***************************************************************************)
Bind(nm, value) == [kind |-> "bind", name |-> nm, value |-> value]

Raise(cls, msg) == [kind |-> "raise", name |-> cls, value |-> PyStr(msg)]

\* {'b': {'c': 3}}
NestedDict ==
    PyDict([k \in {"b"} |-> PyDict([j \in {"c"} |-> PyInt(3)])])

\* The files on disk: the script of each path that exists.
Files ==
    [p \in { [stem |-> "configs/camvid", ext |-> ".py"],
             [stem |-> "configs/camvid", ext |-> ".txt"],
             [stem |-> "configs/broken", ext |-> ".py"],
             [stem |-> "configs/exit", ext |-> ".py"] } |->
        IF p.stem = "configs/camvid"
        THEN <<Bind("_private", PyInt(3)), Bind("batch_size", PyInt(16)),
               Bind("a", NestedDict)>>
        ELSE IF p.stem = "configs/broken"
        THEN <<Bind("batch_size", PyInt(16)), Raise("ValueError", "boom"),
               Bind("a", PyInt(3))>>
        ELSE <<Bind("batch_size", PyInt(16)), Raise("SystemExit", "3")>>]

\* The paths from_file is tried on: the files, and two paths with no file.
Paths ==
    DOMAIN Files \cup { [stem |-> "configs/missing", ext |-> ".py"],
                        [stem |-> "configs/missing", ext |-> ".txt"] }

\* os.path.exists(filename)
PathExists(path) == path \in DOMAIN Files

\* Variant: every extension is taken.
EndsWithPy_any(path) == TRUE

\* filename.endswith('.py')
EndsWithPy(path) == path.ext = ".py"

\* The names used here that start with an underscore.
UnderscoreNames == {"_private", "__builtins__", "_cfg_dict", "_filename"}

\* Variant: no binding is left out.
StartsWithUnderscore_never(key) == FALSE

\* key.startswith('_')
StartsWithUnderscore(key) == key \in UnderscoreNames

\* The exception classes that do not derive from Exception.
BaseExceptionsOnly == {"SystemExit", "KeyboardInterrupt", "GeneratorExit"}

\* Variant: except BaseException
IsException_any(cls) == TRUE

\* except Exception: whether the clause catches an exception of class cls.
IsException(cls) == cls \notin BaseExceptionsOnly

RECURSIVE exec(_, _, _)

\* exec(config_text, namespace): the statements run in order until one raises.
\* Result: the namespace, the statements executed, the exception raised or None.
exec(stmts, ns, done) ==
    IF stmts = <<>>
    THEN [ns |-> ns, executed |-> done, raised |-> PyNone]
    ELSE LET st == Head(stmts)
         IN  IF st.kind = "raise"
             THEN [ns |-> ns, executed |-> Append(done, st),
                   raised |-> [t |-> st.name, s |-> st.value.s, n |-> 0,
                               f |-> EmptyMap]]
             ELSE exec(Tail(stmts),
                       [k \in DOMAIN ns \cup {st.name} |->
                           IF k = st.name THEN st.value ELSE ns[k]],
                       Append(done, st))

\* The namespace as exec finds it: it puts __builtins__ into an empty dict (the
\* builtins themselves are left out here).
FreshNamespace == [k \in {"__builtins__"} |-> PyDict(EmptyMap)]

PathText(path) == <<path.stem, path.ext>>

\* The str that spells a path.
PyPath(path) == [PyStr(path.stem) EXCEPT !.f = path]

\* Config.from_file(filename).  Result: the outcome, the statements executed,
\* and the attributes of the Config made (cd is None when none is made).
from_file(path) ==
    IF ~PathExists(path)
    THEN [out |-> Raised("FileNotFoundError",
                         <<"Config file not found: ">> \o PathText(path)),
          executed |-> <<>>, cd |-> PyNone, fn |-> PyNone]
    ELSE IF ~EndsWithPy(path)
    THEN [out |-> Raised("ValueError", <<"Only .py config files are supported">>),
          executed |-> <<>>, cd |-> PyNone, fn |-> PyNone]
    ELSE
    LET run == exec(Files[path], FreshNamespace, <<>>)
    IN  IF run.raised # PyNone
        THEN IF IsException(run.raised.t)
             THEN [out |-> Raised("RuntimeError",
                                  <<"Error executing config file ">>
                                      \o PathText(path) \o <<": ", run.raised.s>>),
                   executed |-> run.executed, cd |-> PyNone, fn |-> PyNone]
             ELSE [out |-> Raised(run.raised.t, <<run.raised.s>>),
                   executed |-> run.executed, cd |-> PyNone, fn |-> PyNone]
        ELSE
        LET cfg_dict == PyDict([k \in {j \in DOMAIN run.ns : ~StartsWithUnderscore(j)}
                                  |-> run.ns[k]])
            made == Config_init(cfg_dict, PyPath(path))
        IN  [out |-> Returned(ConfigObject(made.cd, made.fn)),
             executed |-> run.executed, cd |-> made.cd, fn |-> made.fn]

(***************************************************************************)
(* A program that holds one Config, made by from_file or by the            *)
(* constructor, and reads, assigns and deletes entries of it: of the root, *)
(* or of a nested ConfigDict it has reached on a path of keys.             *)
(***************************************************************************)
RECURSIVE NodeAt(_, _)

\* The value reached from d on a path of keys; None where the path breaks off.
NodeAt(d, path) ==
    IF path = <<>> THEN d
    ELSE IF d.t = "ConfigDict" /\ Head(path) \in DOMAIN d.f
    THEN NodeAt(d.f[Head(path)], Tail(path))
    ELSE PyNone

RECURSIVE ReplaceAt(_, _, _)

\* d with the node on path replaced: the nested ConfigDict is the same object
\* the tree holds, so a change made through it is a change of the tree.
ReplaceAt(d, path, new) ==
    IF path = <<>> THEN new
    ELSE [d EXCEPT !.f[Head(path)] = ReplaceAt(d.f[Head(path)], Tail(path), new)]

\* The names assigned and deleted on a node: keys is an attribute of every
\* dict and filename one of every Config.
AssignNames(path) ==
    IF path = <<>> THEN {"a", "keys", "filename"} ELSE {"b", "keys"}

\* The names read; zzz is never bound.
ReadNames == {"a", "b", "c", "keys", "filename", "batch_size", "zzz"}

\* The values assigned.
AssignValues == {PyInt(3), NestedDict}

\* The nodes assigned to and deleted from, and the nodes read.
NodePaths == {<<>>, <<"a">>}

ReadPaths == NodePaths \cup {<<"a", "b">>}

\* The arguments given to the constructor.
CfgDicts ==
    {PyDict(EmptyMap), PyDict([k \in {"a"} |-> NestedDict]), PyStr("camvid")}

\* What an operation on the Config leaves in the variables of the last call;
\* ran is the statements it executed.
ConfigCall(o, path, a, value, out, ran) ==
    /\ op' = o
    /\ node' = path
    /\ arg' = a
    /\ extra' = [conv |-> "", defaults |-> value]
    /\ ret' = out
    /\ cfg' = PyNone
    /\ calls' = <<>>
    /\ lookups' = <<>>
    /\ executed' = ran
    /\ UNCHANGED <<_name, _module_dict, pipelineVars, datasetVars>>

IsNode(path) == _cfg_dict # PyNone /\ NodeAt(_cfg_dict, path).t = "ConfigDict"

\* cfg = Config.from_file(path); cfg is left as it was when the call raises.
FromFile ==
    \E path \in Paths :
        LET r == from_file(path)
        IN  /\ _cfg_dict' = IF r.out.exc = "" THEN r.cd ELSE _cfg_dict
            /\ _filename' = IF r.out.exc = "" THEN r.fn ELSE _filename
            /\ ConfigCall("from_file", <<>>, PyPath(path), PyNone, r.out,
                          r.executed)

\* cfg = Config(cfg_dict)
NewConfig ==
    \E d \in CfgDicts :
        LET r == Config_init(d, PyNone)
        IN  /\ _cfg_dict' = IF r.out.exc = "" THEN r.cd ELSE _cfg_dict
            /\ _filename' = IF r.out.exc = "" THEN r.fn ELSE _filename
            /\ ConfigCall("Config", <<>>, d, PyNone,
                          IF r.out.exc = "" THEN Returned(ConfigObject(r.cd, r.fn))
                          ELSE r.out, <<>>)

\* node.nm
GetAttr ==
    \E path \in ReadPaths, nm \in ReadNames :
        /\ IsNode(path)
        /\ ConfigCall("getattr", path, PyStr(nm), PyNone,
                      IF path = <<>> THEN Config_read(_cfg_dict, _filename, nm)
                      ELSE ConfigDict_read(NodeAt(_cfg_dict, path), nm),
                      <<>>)
        /\ UNCHANGED <<_cfg_dict, _filename>>

\* node[nm]
GetItem ==
    \E path \in ReadPaths, nm \in ReadNames :
        /\ IsNode(path)
        /\ ConfigCall("getitem", path, PyStr(nm), PyNone,
                      IF path = <<>> THEN Config_getitem(_cfg_dict, nm)
                      ELSE ConfigDict_getitem(NodeAt(_cfg_dict, path), nm),
                      <<>>)
        /\ UNCHANGED <<_cfg_dict, _filename>>

\* node.nm = value
SetAttr ==
    \E path \in NodePaths :
    \E nm \in AssignNames(path), value \in AssignValues :
        /\ IsNode(path)
        /\ IF path = <<>>
           THEN LET r == Config_setattr(_cfg_dict, _filename, nm, value)
                IN  _cfg_dict' = r.cd /\ _filename' = r.fn
           ELSE /\ _cfg_dict' = ReplaceAt(_cfg_dict, path,
                                    ConfigDict_setattr(NodeAt(_cfg_dict, path),
                                                       nm, value))
                /\ _filename' = _filename
        /\ ConfigCall("setattr", path, PyStr(nm), value, Returned(PyNone), <<>>)

\* node[nm] = value
SetItem ==
    \E path \in NodePaths :
    \E nm \in AssignNames(path), value \in AssignValues :
        /\ IsNode(path)
        /\ _cfg_dict' =
               IF path = <<>> THEN Config_setitem(_cfg_dict, nm, value)
               ELSE ReplaceAt(_cfg_dict, path,
                              ConfigDict_setitem(NodeAt(_cfg_dict, path), nm, value))
        /\ ConfigCall("setitem", path, PyStr(nm), value, Returned(PyNone), <<>>)
        /\ UNCHANGED _filename

\* del node.nm
DelAttr ==
    \E path \in NodePaths :
    \E nm \in AssignNames(path) \cup {"zzz"} :
        /\ IsNode(path)
        /\ LET r == IF path = <<>> THEN Config_delattr(_cfg_dict, _filename, nm)
                    ELSE ConfigDict_delattr(NodeAt(_cfg_dict, path), nm)
           IN  /\ _cfg_dict' = ReplaceAt(_cfg_dict, path, r.d)
               /\ ConfigCall("delattr", path, PyStr(nm), PyNone, r.out, <<>>)
        /\ UNCHANGED _filename

NextConfig ==
    \/ FromFile
    \/ NewConfig
    \/ GetAttr
    \/ GetItem
    \/ SetAttr
    \/ SetItem
    \/ DelAttr

SpecConfig == Init /\ [][NextConfig]_vars

(***************************************************************************)
(* datasets/process: the transform registry and Pipeline                   *)
(***************************************************************************)
\* The classes transforms.py registers, in the order it does; their
\* identities lie beyond those of the model classes.
TransformNames ==
    <<"Resize", "CenterCrop", "RandomCrop", "HorizontalFlip", "VerticalFlip",
      "ColorJitter", "RandomRotate", "Normalize", "ToTensor",
      "RandomBrightnessContrast", "GaussianBlur">>

TransformClass(i) == PyClass(TransformNames[i], MaxClassId + i)

\* TRANSFORMS._module_dict once transforms.py is imported.
TRANSFORMS ==
    [i \in DOMAIN TransformNames |-> [k |-> TransformNames[i], v |-> TransformClass(i)]]

\* build_transform(cfg)
build_transform(cfgv) == build_from_cfg(cfgv, TRANSFORMS, "transforms")

\* What the library's transform named by t makes of an image or a mask: the
\* library is not part of the repository, so the result is kept as the term
\* t(x), and two results are equal only if built from the same calls.
Transformed(t, x) ==
    [t |-> "ndarray", s |-> "", n |-> 0, f |-> [by |-> t, of |-> x]]

\* transforms['mask'].long()
Long(x) == [t |-> "Tensor", s |-> "long", n |-> 0, f |-> [k \in {"of"} |-> x]]

\* The transforms whose library object draws at random on each call.
RandomTransforms ==
    {"RandomCrop", "HorizontalFlip", "VerticalFlip", "ColorJitter", "RandomRotate",
     "RandomBrightnessContrast", "GaussianBlur"}

\* What one call of t's library object, having drawn d, makes of a target.
TransformedBy(t, x, d) ==
    [Transformed(t, x) EXCEPT !.n = IF t.t \in RandomTransforms THEN d ELSE 0]

\* Variant: no transform leaves the mask out.
IsImageOnly_never(t) == FALSE

\* The classes whose __call__ hands the library sample['img'] alone.
IsImageOnly(t) ==
    t.t \in {"ColorJitter", "Normalize", "RandomBrightnessContrast", "GaussianBlur"}

\* Variant: one library call for the image and another for the mask.
Transform_drawn_twoCalls(t, sample, draws) ==
    LET img == TransformedBy(t, sample.f["img"], draws[1])
    IN  IF IsImageOnly(t) \/ "mask" \notin DOMAIN sample.f
        THEN [sample EXCEPT !.f["img"] = img]
        ELSE LET mask == TransformedBy(t, sample.f["mask"], draws[2])
             IN  [sample EXCEPT !.f["img"] = img,
                                !.f["mask"] = IF t.t = "ToTensor" THEN Long(mask)
                                              ELSE mask]

\* transform(sample) for an instance t of a registered class, draws being
\* what the random stream gives from this call on: __call__ makes one call of
\* self.transform, with the image alone or with image and mask; the sample
\* dict is changed in place and returned.
Transform_drawn(t, sample, draws) ==
    LET img == TransformedBy(t, sample.f["img"], draws[1])
    IN  IF IsImageOnly(t) \/ "mask" \notin DOMAIN sample.f
        THEN [sample EXCEPT !.f["img"] = img]
        ELSE LET mask == TransformedBy(t, sample.f["mask"], draws[1])
             IN  [sample EXCEPT !.f["img"] = img,
                                !.f["mask"] = IF t.t = "ToTensor" THEN Long(mask)
                                              ELSE mask]

\* transform(sample) for a transform that draws nothing.
Transform_call(t, sample) == Transform_drawn(t, sample, <<0>>)

RECURSIVE Pipeline_init(_, _, _)
RECURSIVE Pipeline_init_partial(_, _, _)

\* Variant: a spec that does not build ends the loop, and the transforms built
\* before it are the Pipeline.
Pipeline_init_partial(cfgs, built, made) ==
    IF cfgs = <<>>
    THEN [out |-> Returned(PyNone), transforms |-> built, calls |-> made]
    ELSE LET r == build_transform(Head(cfgs))
         IN  IF r.out.exc # ""
             THEN [out |-> Returned(PyNone), transforms |-> built,
                   calls |-> made \o r.calls]
             ELSE Pipeline_init_partial(Tail(cfgs), Append(built, r.out.val),
                                        made \o r.calls)

\* Pipeline.__init__(transforms), from the loop on: cfgs is what is left of the
\* list, built the transforms appended so far, made the constructor calls so
\* far.  A build that raises ends the constructor.
Pipeline_init(cfgs, built, made) ==
    IF cfgs = <<>>
    THEN [out |-> Returned(PyNone), transforms |-> built, calls |-> made]
    ELSE LET r == build_transform(Head(cfgs))
         IN  IF r.out.exc # ""
             THEN [out |-> r.out, transforms |-> built, calls |-> made \o r.calls]
             ELSE Pipeline_init(Tail(cfgs), Append(built, r.out.val),
                                made \o r.calls)

\* Pipeline(transforms): None stands for the empty list.
Pipeline(arglist) ==
    Pipeline_init(IF arglist = PyNone THEN <<>> ELSE arglist.f, <<>>, <<>>)

RECURSIVE Pipeline_loop(_, _, _)

\* Variant: the transforms taken from the last to the first.
Pipeline_loop_reversed(ts, sample, log) ==
    IF ts = <<>>
    THEN [sample |-> sample, applied |-> log]
    ELSE LET t == ts[Len(ts)]
             out == Transform_call(t, sample)
         IN  Pipeline_loop(SubSeq(ts, 1, Len(ts) - 1), out,
                           Append(log, [transform |-> t, input |-> sample,
                                        output |-> out]))

\* Pipeline.__call__(sample): for transform in self.transforms:
\* sample = transform(sample); return sample.
Pipeline_loop(ts, sample, log) ==
    IF ts = <<>>
    THEN [sample |-> sample, applied |-> log]
    ELSE LET out == Transform_call(Head(ts), sample)
         IN  Pipeline_loop(Tail(ts), out,
                           Append(log, [transform |-> Head(ts), input |-> sample,
                                        output |-> out]))

Pipeline_call(ts, sample) == Pipeline_loop(ts, sample, <<>>)

\* The longest list of specs a Pipeline is made from.
MaxTransforms == 2

\* dict(type=nm, **params)
TransformSpec(nm, params) ==
    PyDict([k \in {"type"} \cup DOMAIN params |->
               IF k = "type" THEN PyStr(nm) ELSE params[k]])

\* The specs of configs/camvid.py, a second Resize, and one of a transform
\* that is not registered.
TransformSpecs ==
    { TransformSpec("Resize", [height |-> PyInt(360), width |-> PyInt(480)]),
      TransformSpec("Resize", [height |-> PyInt(180), width |-> PyInt(240)]),
      TransformSpec("Normalize", [mean |-> PyList(1), std |-> PyList(2)]),
      TransformSpec("ToTensor", EmptyMap),
      TransformSpec("Solarize", EmptyMap) }

\* The arguments a Pipeline is made from: None and the lists of specs.
PipelineArgs ==
    {PyNone} \cup
    { [PyList(0) EXCEPT !.f = l] :
        l \in UNION { [1..n -> TransformSpecs] : n \in 0..MaxTransforms } }

Image(nm) == [t |-> "ndarray", s |-> nm, n |-> 0, f |-> EmptyMap]

\* {'img': img} and {'img': img, 'mask': mask}
Samples ==
    { PyDict([k \in {"img"} |-> Image("img")]),
      PyDict([k \in {"img", "mask"} |-> Image(k)]) }

\* pipeline = Pipeline(arglist); the pipeline held stays when this raises.
MakePipeline(arglist) ==
    LET r == Pipeline(arglist)
    IN  /\ op' = "Pipeline"
        /\ arg' = arglist
        /\ transforms' = IF r.out.exc = "" THEN r.transforms ELSE transforms
        /\ calls' = r.calls
        /\ ret' = r.out
        /\ applied' = <<>>
        /\ extra' = NoExtra
        /\ cfg' = PyNone
        /\ lookups' = <<>>
        /\ UNCHANGED <<_name, _module_dict, configVars, datasetVars>>

NewPipeline == \E arglist \in PipelineArgs : MakePipeline(arglist)

\* pipeline(sample)
CallPipeline ==
    \E sample \in Samples :
        LET r == Pipeline_call(transforms, sample)
        IN  /\ op' = "pipeline_call"
            /\ arg' = sample
            /\ ret' = Returned(r.sample)
            /\ applied' = r.applied
            /\ NotABuild
            /\ UNCHANGED <<_name, _module_dict, configVars, transforms, datasetVars>>

NextPipeline == NewPipeline \/ CallPipeline

SpecPipeline == Init /\ [][NextPipeline]_vars

(***************************************************************************)
(* The transforms on their own: one instance of each registered class,     *)
(* called on a sample with the draws the random stream gives.              *)
(***************************************************************************)
\* The most a draw can be.
MaxDraw == 2

\* The processes of configs/camvid.py and, for the classes it does not use,
\* a spec with the defaults.
AllTransformSpecs ==
    { TransformSpec("Resize", [height |-> PyInt(360), width |-> PyInt(480)]),
      TransformSpec("CenterCrop", [height |-> PyInt(352), width |-> PyInt(480)]),
      TransformSpec("RandomCrop", [height |-> PyInt(352), width |-> PyInt(480)]),
      TransformSpec("HorizontalFlip", [p |-> PyFloat("0.5")]),
      TransformSpec("VerticalFlip", EmptyMap),
      TransformSpec("ColorJitter", [hue |-> PyFloat("0.1"), p |-> PyFloat("0.5")]),
      TransformSpec("RandomRotate", EmptyMap),
      TransformSpec("Normalize", [mean |-> PyList(1), std |-> PyList(2)]),
      TransformSpec("ToTensor", EmptyMap),
      TransformSpec("RandomBrightnessContrast", EmptyMap),
      TransformSpec("GaussianBlur", EmptyMap) }

\* The instances built from them.
TransformInstances == {build_transform(c).out.val : c \in AllTransformSpecs}

\* Samples as prepare_data makes them: with a filename, with or without a mask.
PreparedSamples ==
    { PyDict([k \in {"img", "filename"} |->
                 IF k = "img" THEN Image(k) ELSE PyStr("0001TP_006690.png")]),
      PyDict([k \in {"img", "filename", "mask"} |->
                 IF k = "filename" THEN PyStr("0001TP_006690.png") ELSE Image(k)]) }

\* transform(sample)
CallTransform ==
    \E t \in TransformInstances, sample \in Samples \cup PreparedSamples,
       draws \in [1..2 -> 1..MaxDraw] :
        LET out == Transform_drawn(t, sample, draws)
        IN  /\ op' = "transform_call"
            /\ arg' = sample
            /\ extra' = [conv |-> "", defaults |-> t]
            /\ ret' = Returned(out)
            /\ rng' = draws
            /\ applied' = <<[transform |-> t, input |-> sample, output |-> out]>>
            /\ cfg' = PyNone
            /\ calls' = <<>>
            /\ lookups' = <<>>
            /\ UNCHANGED <<_name, _module_dict, configVars, transforms, frames,
                           dataset>>

SpecTransforms == Init /\ [][CallTransform]_vars

(***************************************************************************)
(* datasets: the dataset registry, BaseDataset and CamVid                  *)
(***************************************************************************)
\* The classes datasets/ registers, in the order it does.
DatasetNames == <<"BaseDataset", "CamVid">>

DatasetClass(i) == PyClass(DatasetNames[i], MaxClassId + Len(TransformNames) + i)

\* The subclass the docstring of BaseDataset gives as its example; it is not
\* registered.
MyDataset == PyClass("MyDataset", MaxClassId + Len(TransformNames) + 3)

\* DATASETS._module_dict once datasets/ is imported.
DATASETS ==
    [i \in DOMAIN DatasetNames |-> [k |-> DatasetNames[i], v |-> DatasetClass(i)]]

\* A list and a bool as values.
ListOf(items) == [PyList(0) EXCEPT !.f = items]

PyBool(b) == [t |-> "bool", s |-> IF b THEN "True" ELSE "False", n |-> 0,
              f |-> EmptyMap]

\* The text files on disk, each as its lines, and the JSON file, as the
\* object json.load makes of it.
SplitFiles ==
    [p \in {"splits/train.txt", "splits/val.txt"} |->
        IF p = "splits/train.txt"
        THEN <<"0001TP_006690.png", "", "0001TP_006720.png", "  ">>
        ELSE <<"0016E5_07959.png">>]

InfoFiles ==
    [p \in {"splits/dataset_info.json"} |->
        [num_classes |-> PyInt(11), ignore_index |-> PyInt(255)]]

RECURSIVE ReadInfos(_)

\* CamVid.load_annotations, the loop: an info for each line that is not blank.
ReadInfos(lines) ==
    IF lines = <<>> THEN <<>>
    ELSE LET \* line.strip(): the blank lines are empty or hold blanks only
             Strip(l) == IF l \in {"", "  "} THEN "" ELSE l
             line == Strip(Head(lines))
         IN  (IF line # ""
              THEN <<PyDict([k \in {"filename"} |-> PyStr(line)])>>
              ELSE <<>>) \o ReadInfos(Tail(lines))

\* self.load_annotations() for an instance of cls: the outcome and data_infos.
load_annotations(cls, self) ==
    IF cls.s = "CamVid"
    THEN IF self["split_file"].s \notin DOMAIN SplitFiles
         THEN [out |-> Raised("FileNotFoundError",
                              <<"No such file or directory: '",
                                self["split_file"].s, "'">>),
               data_infos |-> <<>>]
         ELSE [out |-> Returned(PyNone),
               data_infos |-> ReadInfos(SplitFiles[self["split_file"].s])]
    ELSE IF cls.s = "MyDataset"
    THEN [out |-> Returned(PyNone),
          data_infos |-> <<PyDict([k \in {"filename"} |-> PyStr("image1.png")]),
                           PyDict([k \in {"filename"} |-> PyStr("image2.png")])>>]
    ELSE [out |-> Raised("NotImplementedError",
                         <<cls.s, " must implement load_annotations()">>),
          data_infos |-> <<>>]

\* A Pipeline as a value.
PipelineObject(ts) ==
    [t |-> "Pipeline", s |-> "", n |-> 0, f |-> [k \in {"transforms"} |-> ListOf(ts)]]

\* The body of BaseDataset.__init__ for an instance of cls that has the
\* attributes self already, its parameters bound to a.  Result: the outcome
\* and the attributes the instance has when the call ends.
BaseDataset_body(cls, self, a) ==
        LET \* 'train' in split
            ContainsTrain(split) == split \in {"train", "train.txt"}
            self1 == [k \in {"data_root", "split", "is_training", "data_infos"} |->
                         IF k = "is_training" THEN PyBool(ContainsTrain(a["split"].s))
                         ELSE IF k = "data_infos" THEN ListOf(<<>>)
                         ELSE a[k]] @@ self
            la == load_annotations(cls, self1)
            self2 == [self1 EXCEPT !["data_infos"] = ListOf(la.data_infos)]
        IN  IF la.out.exc # "" THEN [out |-> la.out, self |-> self2]
            ELSE
            LET r == Pipeline(a["processes"])
            IN  IF r.out.exc # "" THEN [out |-> r.out, self |-> self2]
                ELSE [out |-> Returned(PyNone),
                      self |-> [k \in {"pipeline"} |-> PipelineObject(r.transforms)]
                                   @@ self2]

\* BaseDataset.__init__ called with the keywords kwargs: Python binds them to
\* the parameters, then the body runs.
BaseDataset_init(cls, self, kwargs) ==
    CHOOSE result \in
        { IF bound.exc # "" THEN [out |-> bound, self |-> self]
          ELSE BaseDataset_body(cls, self, bound.val.f) :
            bound \in {Instantiate(DatasetClass(1), kwargs)} } : TRUE

\* CamVid.load_dataset_info(json_path): the outcome and the attributes set.
load_dataset_info(json_path) ==
    IF json_path.s \notin DOMAIN InfoFiles
    THEN [out |-> Raised("FileNotFoundError",
                         <<"No such file or directory: '", json_path.s, "'">>),
          attrs |-> EmptyMap]
    ELSE LET info == InfoFiles[json_path.s]
         IN  [out |-> Returned(PyNone),
              attrs |-> [k \in {"num_classes", "class_names", "ignore_index",
                                "mean", "std", "color_to_class"} |->
                            IF k \in DOMAIN info THEN info[k]
                            ELSE IF k = "color_to_class" THEN PyDict(EmptyMap)
                            ELSE PyList(0)]]

\* CamVid.__init__ called with the keywords kwargs: the outcome and the
\* attributes of the instance when the call ends.
CamVid_init(kwargs) ==
    LET bound == Instantiate(DatasetClass(2), kwargs)
    IN  IF bound.exc # "" THEN [out |-> bound, self |-> EmptyMap]
        ELSE
        LET a == bound.val.f
            \* os.path.basename(path), for the paths of the split files
            Basename(path) ==
                IF path = "splits/train.txt" THEN "train.txt"
                ELSE IF path = "splits/val.txt" THEN "val.txt"
                ELSE path
            self0 == [k \in {"img_dir", "label_dir", "split_file"} |-> a[k]]
            info == load_dataset_info(a["dataset_info_path"])
        IN  IF info.out.exc # "" THEN [out |-> info.out, self |-> self0]
            ELSE BaseDataset_init(DatasetClass(2), info.attrs @@ self0,
                     [k \in {"data_root", "split", "processes", "cfg"} |->
                         IF k = "data_root" THEN a["img_dir"]
                         ELSE IF k = "split" THEN PyStr(Basename(a["split_file"].s))
                         ELSE a[k]])

\* cls(**kwargs) for a dataset class: the outcome, its value being the instance.
Dataset_new(cls, kwargs) ==
    CHOOSE result \in
        { IF r.out.exc # "" THEN r.out
          ELSE Returned([PyObject(cls, r.self) EXCEPT !.n = 0]) :
            r \in {IF cls.s = "CamVid" THEN CamVid_init(kwargs)
                   ELSE BaseDataset_init(cls, EmptyMap, kwargs)} } : TRUE

\* build_dataset(split_cfg): build_from_cfg with DATASETS, the constructor
\* call it ends in being that of the dataset class.
build_dataset(split_cfg) ==
    CHOOSE result \in
        { IF r.calls = <<>> THEN r
          ELSE [r EXCEPT !.out = Dataset_new(r.calls[1].cls, r.calls[1].kwargs)] :
            r \in {build_from_cfg(split_cfg, DATASETS, "datasets")} } : TRUE

\* len(dataset)
Dataset_len(ds) == Len(ds.f["data_infos"].f)

\* dataset.prepare_data(idx): the outcome, its value being the raw sample.
\* Indices count from 0; a negative one counts from the end.
prepare_data(ds, idx) ==
    LET infos == ds.f["data_infos"].f
        i == IF idx < 0 THEN Len(infos) + idx + 1 ELSE idx + 1
    IN  IF i \notin DOMAIN infos
        THEN Raised("IndexError", <<"list index out of range">>)
        ELSE IF ds.t = "CamVid"
        THEN Returned(PyDict(
                 [k \in {"img", "filename"}
                        \cup (IF ds.f["is_training"] = PyBool(TRUE) THEN {"mask"}
                              ELSE {}) |->
                     IF k = "filename" THEN infos[i].f["filename"]
                     ELSE Image(k)]))
        ELSE Returned(PyDict([k \in {"img", "mask"} |-> Image(k)]))

\* dataset[idx]: the outcome and the transform calls made.
Dataset_getitem(ds, idx) ==
    LET raw == prepare_data(ds, idx)
    IN  IF raw.exc # "" THEN [out |-> raw, applied |-> <<>>]
        ELSE LET r == Pipeline_call(ds.f["pipeline"].f["transforms"].f, raw.val)
             IN  [out |-> Returned(r.sample), applied |-> r.applied]

\* The lists of processes datasets are made with: none, the empty one, two
\* that build, and one whose second spec names a transform not registered.
ProcessLists ==
    LET resize == TransformSpec("Resize", [height |-> PyInt(360), width |-> PyInt(480)])
        normalize == TransformSpec("Normalize", [mean |-> PyList(1), std |-> PyList(2)])
    IN  { PyNone, ListOf(<<>>),
          ListOf(<<resize, TransformSpec("ToTensor", EmptyMap)>>),
          ListOf(<<resize, normalize, TransformSpec("ToTensor", EmptyMap)>>),
          ListOf(<<resize, TransformSpec("Solarize", EmptyMap)>>) }

\* The specs build_dataset is tried on: those of configs/camvid.py, with split
\* and info files that exist or not, and specs of the base class.
DatasetSpecs ==
    { PyDict([k \in {"type", "img_dir", "label_dir", "split_file",
                     "dataset_info_path", "processes"} |->
                 IF k = "type" THEN PyStr("CamVid")
                 ELSE IF k = "img_dir" THEN PyStr("701_StillsRaw_full")
                 ELSE IF k = "label_dir" THEN PyStr("LabeledApproved_full")
                 ELSE IF k = "split_file" THEN PyStr(split)
                 ELSE IF k = "dataset_info_path" THEN PyStr(info)
                 ELSE procs]) :
        split \in {"splits/train.txt", "splits/val.txt", "splits/missing.txt"},
        info \in {"splits/dataset_info.json", "splits/missing.json"},
        procs \in ProcessLists }
    \cup
    { PyDict([k \in {"type", "data_root", "split", "processes"} |->
                 IF k = "type" THEN PyStr(nm)
                 ELSE IF k = "processes" THEN procs
                 ELSE PyStr("train")]) :
        nm \in {"BaseDataset", "CityScapes"}, procs \in ProcessLists }

\* What a call on the dataset side leaves in the builder's variables.
DatasetCall(o, a, out, made, log) ==
    /\ op' = o
    /\ arg' = a
    /\ ret' = out
    /\ calls' = made
    /\ applied' = log
    /\ extra' = NoExtra
    /\ cfg' = PyNone
    /\ lookups' = <<>>
    /\ UNCHANGED <<_name, _module_dict, configVars, transforms, rng, frames>>

\* dataset = build_dataset(split_cfg); the dataset held stays when this raises.
BuildDataset ==
    \E split_cfg \in DatasetSpecs :
        LET r == build_dataset(split_cfg)
        IN  /\ dataset' = IF r.out.exc = "" THEN r.out.val ELSE dataset
            /\ DatasetCall("build_dataset", split_cfg, r.out, r.calls, <<>>)

\* dataset = MyDataset(data_root=..., split=..., processes=...)
NewMyDataset ==
    \E split \in {"train", "val"}, procs \in ProcessLists :
        LET kwargs == [k \in {"data_root", "split", "processes"} |->
                          IF k = "processes" THEN procs
                          ELSE IF k = "split" THEN PyStr(split) ELSE PyStr("data")]
            out == Dataset_new(MyDataset, kwargs)
        IN  /\ dataset' = IF out.exc = "" THEN out.val ELSE dataset
            /\ DatasetCall("MyDataset", PyDict(kwargs), out,
                           <<[cls |-> MyDataset, kwargs |-> kwargs]>>, <<>>)

\* len(dataset)
DatasetLen ==
    /\ dataset # PyNone
    /\ DatasetCall("len", PyNone, Returned(PyInt(Dataset_len(dataset))), <<>>, <<>>)
    /\ UNCHANGED dataset

\* dataset[idx]
DatasetGetItem ==
    /\ dataset # PyNone
    /\ \E idx \in -1..2 :
          LET r == Dataset_getitem(dataset, idx)
          IN  DatasetCall("getitem", PyInt(idx), r.out, <<>>, r.applied)
    /\ UNCHANGED dataset

\* pipeline = Pipeline(processes), made apart from a dataset
NewProcessPipeline == \E arglist \in ProcessLists : MakePipeline(arglist)

SpecDataset ==
    Init /\ [][\/ BuildDataset
               \/ NewMyDataset
               \/ NewProcessPipeline
               \/ DatasetLen
               \/ DatasetGetItem]_vars

(***************************************************************************)
(* One Pipeline called by several callers at a time.  Pipeline.__call__    *)
(* keeps the sample in a local of the call, so each caller in progress has *)
(* a frame: the transform it is at, its sample, and the draws the library  *)
(* made for it.  A step is one transform call, the unit of interleaving.   *)
(***************************************************************************)
MaxCallers == 2

\* Variant: the transform reads the sample from an attribute of its own, set
\* by whichever call came first.
StepSample_shared(fs, c) == fs[CHOOSE k \in DOMAIN fs : \A j \in DOMAIN fs : k <= j].sample

\* The sample the transform of caller c's step is called with: the local of
\* that caller's __call__.
StepSample(fs, c) == fs[c].sample

\* pipeline = Pipeline([...]) with a transform that draws, while no call is
\* in progress.
BuildShared ==
    /\ DOMAIN frames = {}
    /\ \E arglist \in
           { ListOf(<<TransformSpec("Resize", [height |-> PyInt(360),
                                               width |-> PyInt(480)]),
                      TransformSpec("HorizontalFlip", [p |-> PyFloat("0.5")])>>),
             ListOf(<<TransformSpec("HorizontalFlip", [p |-> PyFloat("0.5")]),
                      TransformSpec("ToTensor", EmptyMap)>>) } :
           MakePipeline(arglist)

\* Caller c enters pipeline(sample).
Begin(c) ==
    /\ c \notin DOMAIN frames
    /\ transforms # <<>>
    /\ \E sample \in Samples :
          frames' = [k \in DOMAIN frames \cup {c} |->
                        IF k = c THEN [pc |-> 1, input |-> sample, sample |-> sample,
                                       draws |-> <<>>]
                        ELSE frames[k]]
    /\ UNCHANGED <<_name, _module_dict, op, arg, extra, cfg, calls, lookups, ret,
                   configVars, pipelineVars, rng, dataset>>

\* Caller c runs one turn of the loop: sample = t(sample).
Step(c) ==
    /\ c \in DOMAIN frames
    /\ frames[c].pc <= Len(transforms)
    /\ LET t == transforms[frames[c].pc]
       IN  \E d \in IF t.t \in RandomTransforms THEN 1..MaxDraw ELSE {0} :
              frames' = [frames EXCEPT
                  ![c].pc = @ + 1,
                  ![c].sample = Transform_drawn(t, StepSample(frames, c), <<d, d>>),
                  ![c].draws = Append(@, d)]
    /\ UNCHANGED <<_name, _module_dict, op, arg, extra, cfg, calls, lookups, ret,
                   configVars, pipelineVars, rng, dataset>>

\* Caller c leaves the loop: return sample.
Return(c) ==
    /\ c \in DOMAIN frames
    /\ frames[c].pc = Len(transforms) + 1
    /\ op' = "concurrent_call"
    /\ arg' = frames[c].input
    /\ ret' = Returned(frames[c].sample)
    /\ rng' = frames[c].draws
    /\ frames' = [k \in DOMAIN frames \ {c} |-> frames[k]]
    /\ applied' = <<>>
    /\ NotABuild
    /\ UNCHANGED <<_name, _module_dict, configVars, transforms, dataset>>

SpecConcurrent ==
    Init /\ [][\/ BuildShared
               \/ \E c \in 1..MaxCallers : Begin(c) \/ Step(c) \/ Return(c)]_vars

(***************************************************************************)
(* Properties.                                                             *)
(***************************************************************************)
\* cls is what the dict md holds under key.
RegisteredUnder(md, key, cls) ==
    \E i \in DOMAIN md : md[i].k = key /\ md[i].v = cls

\* The fields of a spec other than 'type'.
OtherFields(spec) == [k \in DOMAIN spec.f \ {"type"} |-> spec.f[k]]

\* The last call was build_from_cfg(spec, registry) with a dict spec whose
\* 'type' is a string registered in the registry.
ValidSpec ==
    /\ op = "build_from_cfg"
    /\ arg.t = "dict"
    /\ "type" \in DOMAIN arg.f
    /\ arg.f["type"].t = "str"
    /\ arg.f["type"].s \in DictKeys(_module_dict)

\* C1: registering a class whose __name__ is already a key raises KeyError and
\* leaves the mapping as it was, for the same class object and for a distinct
\* class of the same name alike.
C1_DuplicateNameFails ==
    [][(op' = "register_module" /\ arg'.t = "type"
            /\ arg'.s \in DictKeys(_module_dict))
        => (ret'.exc = "KeyError" /\ _module_dict' = _module_dict)]_vars

\* A distinct class of an already registered name has just been refused.
C1_Witness ==
    /\ op = "register_module"
    /\ ret.exc = "KeyError"
    /\ \E i \in DOMAIN _module_dict :
          _module_dict[i].k = arg.s /\ _module_dict[i].v # arg

\* C2: a register_module(cls) that succeeds returns cls itself and adds exactly
\* the entry cls.__name__ -> cls, every other entry staying as it was.
C2_RegisterAddsOneEntry ==
    [][(op' = "register_module" /\ ret'.exc = "")
        => /\ ret'.val = arg'
           /\ arg'.s \notin DictKeys(_module_dict)
           /\ DictKeys(_module_dict') = DictKeys(_module_dict) \cup {arg'.s}
           /\ Len(_module_dict') = Len(_module_dict) + 1
           /\ RegisteredUnder(_module_dict', arg'.s, arg')
           /\ \A i \in DOMAIN _module_dict : _module_dict'[i] = _module_dict[i]]_vars

\* A second class has just been registered next to an earlier one.
C2_Witness ==
    /\ op = "register_module"
    /\ ret.exc = ""
    /\ Len(_module_dict) = 2
    /\ _module_dict[2] = [k |-> arg.s, v |-> arg]

\* C3: register_module of a value that is not a class raises TypeError and adds
\* no entry.
C3_NonClassRejected ==
    [][(op' = "register_module" /\ arg'.t # "type")
        => (ret'.exc = "TypeError" /\ _module_dict' = _module_dict)]_vars

\* A plain function, which has a __name__ like a class, has just been refused.
C3_Witness ==
    /\ op = "register_module"
    /\ arg.t = "function"
    /\ ret.exc = "TypeError"
    /\ arg.s \notin DictKeys(_module_dict)

\* C4: get(key) raises nothing; it returns the class registered under key when
\* there is one and None otherwise, and None is returned only for a key that is
\* not registered.
C4_GetNeverRaises ==
    op = "get" =>
        /\ ret.exc = ""
        /\ \/ arg.s \in DictKeys(_module_dict)
              /\ RegisteredUnder(_module_dict, arg.s, ret.val)
              /\ ret.val.t = "type"
           \/ arg.s \notin DictKeys(_module_dict)
              /\ ret.val = PyNone

\* A key that is not registered has just been looked up in a registry that
\* holds other keys.
C4_Witness ==
    /\ op = "get"
    /\ ret.val = PyNone
    /\ _module_dict # <<>>
    /\ arg.s \notin DictKeys(_module_dict)

\* C5, as claimed: nothing a caller does with the accessors name and module_dict
\* or with the values they return changes the registry's entries or its name.
C5_AccessorsReadOnly ==
    [][op' \in {"read_name", "read_module_dict", "assign_property",
                "mutate_module_dict"}
        => (_module_dict' = _module_dict /\ _name' = _name)]_vars

\* C5, amended: reading an accessor changes nothing; assigning to one raises
\* AttributeError and changes nothing; no caller operation changes the name;
\* but module_dict hands out the registry's own dict, so a mutation of the
\* returned dict is a mutation of the registry's entries.
C5_AccessorsNotAssignable ==
    [][/\ op' \in {"read_name", "read_module_dict", "assign_property"}
            => (_module_dict' = _module_dict /\ _name' = _name)
       /\ op' = "read_name" => ret' = Returned(PyStr(_name))
       /\ op' = "assign_property" => ret'.exc = "AttributeError"
       /\ op' = "mutate_module_dict"
            => /\ _name' = _name
               /\ extra'.conv = "setitem"
                    => RegisteredUnder(_module_dict', arg'.s, extra'.defaults)
               /\ extra'.conv = "delitem" => arg'.s \notin DictKeys(_module_dict')
               /\ extra'.conv = "clear" => _module_dict' = <<>>]_vars

\* An assignment to an accessor of a populated registry has just been refused.
C5_Witness ==
    /\ op = "assign_property"
    /\ ret.exc = "AttributeError"
    /\ Len(_module_dict) = 2

C7_DefaultsMerged ==
    (/\ ValidSpec
     /\ extra.conv \in {"default_args", "kwargs"}
     /\ extra.defaults.t \in {"dict", "NoneType"})
    => /\ Len(calls) = 1
       /\ calls[1].kwargs = OtherFields(arg) @@ extra.defaults.f

\* C8: after build_from_cfg, returned or raised, the caller's spec has the keys
\* and values it had when the call was made.
C8_SpecNotMutated ==
    op = "build_from_cfg" => cfg = arg

\* An instance has just been built from a spec with parameters, and the spec
\* still holds its 'type'.
C8_Witness ==
    /\ op = "build_from_cfg"
    /\ ret.exc = ""
    /\ Len(calls) = 1
    /\ "type" \notin DOMAIN calls[1].kwargs
    /\ "type" \in DOMAIN cfg.f
    /\ "param1" \in DOMAIN cfg.f

\* C9: build_from_cfg(spec, registry) on a spec that is no dict raises TypeError
\* with a message that names the type received, and constructs nothing.
C9_NonDictRejected ==
    (op = "build_from_cfg" /\ extra.conv = "positional" /\ arg.t # "dict")
    => /\ ret.exc = "TypeError"
       /\ arg.t \in Range(ret.msg)
       /\ calls = <<>>

\* A list has just been refused as a spec, by a registry that holds classes.
C9_Witness ==
    /\ op = "build_from_cfg"
    /\ extra.conv = "positional"
    /\ arg.t = "list"
    /\ ret.exc = "TypeError"
    /\ _module_dict # <<>>

\* C10: build_from_cfg(spec, registry) on a dict spec without 'type' raises
\* KeyError, and on one whose 'type' is no string raises TypeError, in both
\* cases with no registry lookup and no constructor call made.
C10_TypeFieldValidatedFirst ==
    (op = "build_from_cfg" /\ extra.conv = "positional" /\ arg.t = "dict")
    => /\ "type" \notin DOMAIN arg.f
            => (ret.exc = "KeyError" /\ lookups = <<>> /\ calls = <<>>)
       /\ ("type" \in DOMAIN arg.f /\ arg.f["type"].t # "str")
            => (ret.exc = "TypeError" /\ lookups = <<>> /\ calls = <<>>)

\* A spec whose 'type' is a number has just been refused, by a registry that
\* holds classes.
C10_Witness ==
    /\ op = "build_from_cfg"
    /\ extra.conv = "positional"
    /\ arg.t = "dict"
    /\ "type" \in DOMAIN arg.f
    /\ arg.f["type"].t = "int"
    /\ ret.exc = "TypeError"
    /\ _module_dict # <<>>

\* C11: build_from_cfg(spec, registry) on a dict spec whose 'type' is a string
\* that is no key of the registry raises KeyError with a message that holds the
\* requested name and every key registered at that moment, and constructs
\* nothing.
C11_UnknownTypeListsKeys ==
    (/\ op = "build_from_cfg"
     /\ extra.conv = "positional"
     /\ arg.t = "dict"
     /\ "type" \in DOMAIN arg.f
     /\ arg.f["type"].t = "str"
     /\ arg.f["type"].s \notin DictKeys(_module_dict))
    => /\ ret.exc = "KeyError"
       /\ arg.f["type"].s \in Range(ret.msg)
       /\ \A k \in DictKeys(_module_dict) : k \in Range(ret.msg)
       /\ calls = <<>>

\* 'NonExistentModel' has just been asked of a registry holding ModelA and
\* ModelB.
C11_Witness ==
    /\ op = "build_from_cfg"
    /\ extra.conv = "positional"
    /\ arg.t = "dict"
    /\ "type" \in DOMAIN arg.f
    /\ arg.f["type"] = PyStr("NonExistentModel")
    /\ DictKeys(_module_dict) = {"ModelA", "ModelB"}
    /\ ret.exc = "KeyError"

\* C12, as claimed: when the constructor rejects the keywords, build_from_cfg
\* raises a TypeError whose message starts 'Error instantiating <ClassName>'
\* and carries the constructor's own message.
C12_InstantiationErrorWrapped ==
    (/\ ValidSpec
     /\ extra.conv = "positional"
     /\ Len(calls) = 1
     /\ Instantiate(calls[1].cls, calls[1].kwargs).exc # "")
    => /\ ret.exc = "TypeError"
       /\ "Error instantiating " \in Range(ret.msg)
       /\ calls[1].cls.s \in Range(ret.msg)
       /\ Range(Instantiate(calls[1].cls, calls[1].kwargs).msg) \subseteq Range(ret.msg)

\* The path a from_file step was called with.
CalledPath == arg'.f

\* The raise statements of the script at path.
RaisedBy(path) == {st \in Range(Files[path]) : st.kind = "raise"}

\* The step neither produces a Config nor touches the one held.
NoConfigProduced == ret'.val = PyNone /\ UNCHANGED <<_cfg_dict, _filename>>

\* C13: from_file fails with FileNotFoundError on a path that does not exist
\* and with ValueError on one that exists but does not end in '.py'; in both
\* cases no statement is executed and no Config is produced.
C13_BadPathRejected ==
    [][op' = "from_file" =>
        /\ CalledPath \notin DOMAIN Files =>
              /\ ret'.exc = "FileNotFoundError"
              /\ executed' = <<>>
              /\ NoConfigProduced
        /\ CalledPath \in DOMAIN Files /\ CalledPath.ext # ".py" =>
              /\ ret'.exc = "ValueError"
              /\ executed' = <<>>
              /\ NoConfigProduced]_vars

\* An existing file that is not a .py file has been rejected while a Config
\* was held.
C13_Witness ==
    /\ op = "from_file"
    /\ _cfg_dict # PyNone
    /\ ret.exc = "ValueError"
    /\ arg.f \in DOMAIN Files
    /\ executed = <<>>

\* The Config a script's bindings should give: the last value bound to each
\* name that does not start with an underscore.
Bindings(script) ==
    LET names == {st.name : st \in Range(script)} \ UnderscoreNames
        last(nm) == CHOOSE i \in DOMAIN script :
                        /\ script[i].name = nm
                        /\ \A j \in DOMAIN script : script[j].name = nm => j <= i
    IN  [nm \in names |-> script[last(nm)].value]

RECURSIVE PyEq(_, _)

\* v == w in Python: a dict and a ConfigDict with equal items are equal.
PyEq(v, w) ==
    IF v.t \in {"dict", "ConfigDict"} /\ w.t \in {"dict", "ConfigDict"}
    THEN /\ DOMAIN v.f = DOMAIN w.f
         /\ \A k \in DOMAIN v.f : PyEq(v.f[k], w.f[k])
    ELSE v = w

WrappedError(st) ==
    /\ ret'.exc = "RuntimeError"
    /\ CalledPath.stem \in Range(ret'.msg)
    /\ st.value.s \in Range(ret'.msg)
    /\ NoConfigProduced

\* C15: whenever executing the script raises, from_file fails with a
\* RuntimeError naming the file and the underlying error; nothing the script
\* raises reaches the caller unwrapped, and no Config is returned.
C15_ScriptErrorWrapped ==
    [][/\ op' = "from_file"
       /\ CalledPath \in DOMAIN Files
       /\ CalledPath.ext = ".py"
       => \A st \in RaisedBy(CalledPath) : WrappedError(st)]_vars

\* C15 amended: an exception derived from Exception is wrapped in a
\* RuntimeError naming the file and the error; one that is not (SystemExit,
\* KeyboardInterrupt, GeneratorExit) reaches the caller as raised.  In both
\* cases no Config is returned.
C15_ExceptionWrapped ==
    [][/\ op' = "from_file"
       /\ CalledPath \in DOMAIN Files
       /\ CalledPath.ext = ".py"
       => \A st \in RaisedBy(CalledPath) :
             IF st.name \in BaseExceptionsOnly
             THEN /\ ret'.exc = st.name
                  /\ NoConfigProduced
             ELSE WrappedError(st)]_vars

\* A script that raised ValueError has been reported as a RuntimeError, with
\* only the statements up to the raise executed.
C15_Witness ==
    /\ op = "from_file"
    /\ ret.exc = "RuntimeError"
    /\ "boom" \in Range(ret.msg)
    /\ Len(executed) = 2

\* The step assigns to an entry of the root, in either style.
RootAssignment == op' \in {"setattr", "setitem"} /\ node' = <<>>

\* C16: after an assignment in either style, every name bound in the tree
\* reads as its bound value in both styles, the name just assigned reads as
\* the value assigned, and the source path kept as metadata is what it was.
C16_StylesConsistent ==
    [][RootAssignment =>
        /\ PyEq(_cfg_dict'.f[arg'.s], extra'.defaults)
        /\ \A n \in DOMAIN _cfg_dict'.f :
              /\ Config_read(_cfg_dict', _filename', n) = Returned(_cfg_dict'.f[n])
              /\ Config_getitem(_cfg_dict', n) = Returned(_cfg_dict'.f[n])
        /\ _filename' = _filename]_vars

RECURSIVE AllWrapped(_)

\* No plain dict is held in d, at any depth.
AllWrapped(d) ==
    /\ d.t # "dict"
    /\ d.t = "ConfigDict" => \A k \in DOMAIN d.f : AllWrapped(d.f[k])

RECURSIVE AttributesWork(_)

\* Every entry of d whose name no attribute of dict hides is read as an
\* attribute, and so on in every ConfigDict below d.
AttributesWork(d) ==
    d.t = "ConfigDict" =>
        \A k \in DOMAIN d.f :
            /\ k \notin DictMethods => ConfigDict_read(d, k) = Returned(d.f[k])
            /\ AttributesWork(d.f[k])

\* cfg.a.b.c
Read_a_b_c(cd, fn) ==
    ConfigDict_read(ConfigDict_read(Config_read(cd, fn, "a").val, "b").val, "c")

NodeBefore == NodeAt(_cfg_dict, node')

\* C18: reading a name absent from the node fails with AttributeError when
\* read as an attribute and with KeyError when read as a key, on the root and
\* on nested nodes, the message holding the name; the tree is unchanged.
C18_AbsentNameFails ==
    [][op' \in {"getattr", "getitem"} /\ arg'.s \notin DOMAIN NodeBefore.f =>
        /\ ret'.exc = IF op' = "getattr" THEN "AttributeError" ELSE "KeyError"
        /\ arg'.s \in Range(ret'.msg)
        /\ UNCHANGED <<_cfg_dict, _filename>>]_vars

\* d without the key k.
Without(d, k) == [d EXCEPT !.f = [j \in DOMAIN d.f \ {k} |-> d.f[j]]]

\* C19: del node.k, on the root as on a nested node, removes exactly k when
\* it is present and leaves the rest of the tree as it was; when k is absent
\* it fails with AttributeError and the tree is unchanged.
C19_DeleteRemovesKey ==
    [][op' = "delattr" =>
        IF arg'.s \in DOMAIN NodeBefore.f
        THEN /\ ret'.exc = ""
             /\ _cfg_dict' = ReplaceAt(_cfg_dict, node', Without(NodeBefore, arg'.s))
        ELSE /\ ret'.exc = "AttributeError"
             /\ _cfg_dict' = _cfg_dict]_vars

RECURSIVE Composed(_, _)

\* tn(...t2(t1(sample))) for ts = <<t1, ..., tn>>
Composed(ts, sample) ==
    IF ts = <<>> THEN sample
    ELSE Transform_call(ts[Len(ts)], Composed(SubSeq(ts, 1, Len(ts) - 1), sample))

\* C20: a Pipeline made from the specs s1..sn holds n transforms, the i-th
\* built from si; a call applies each once, in that order, each to the
\* output of the one before, and returns tn(...t1(sample)); a Pipeline made
\* from None or from the empty list returns the sample as it is.
C20_TransformsInOrder ==
    [][/\ op' = "Pipeline" /\ ret'.exc = "" =>
            LET specs == IF arg' = PyNone THEN <<>> ELSE arg'.f
            IN  /\ Len(transforms') = Len(specs)
                /\ Len(calls') = Len(specs)
                /\ \A i \in DOMAIN specs :
                      /\ transforms'[i].t = specs[i].f["type"].s
                      /\ DOMAIN transforms'[i].f = DOMAIN specs[i].f \ {"type"}
                      /\ \A k \in DOMAIN transforms'[i].f :
                            transforms'[i].f[k] = specs[i].f[k]
                      /\ calls'[i].cls.s = specs[i].f["type"].s
                      /\ calls'[i].kwargs = transforms'[i].f
       /\ op' = "pipeline_call" =>
            /\ transforms' = transforms
            /\ Len(applied') = Len(transforms)
            /\ \A i \in DOMAIN applied' :
                  /\ applied'[i].transform = transforms[i]
                  /\ applied'[i].input = IF i = 1 THEN arg' ELSE applied'[i - 1].output
                  /\ applied'[i].output = Transform_call(transforms[i], applied'[i].input)
            /\ ret'.val = Composed(transforms, arg')
            /\ transforms = <<>> => ret'.val = arg']_vars

\* A Pipeline of Resize then Normalize has been applied to a sample with a
\* mask.
C20_Witness ==
    /\ op = "pipeline_call"
    /\ Len(transforms) = 2
    /\ transforms[1].t = "Resize"
    /\ transforms[2].t = "Normalize"
    /\ "mask" \in DOMAIN arg.f
    /\ ret.val.f["img"] =
           Transformed(transforms[2], Transformed(transforms[1], arg.f["img"]))
    /\ ret.val.f["mask"] = Transformed(transforms[1], arg.f["mask"])

\* The transform a transform_call step called, and what it returned.
CalledTransform == extra'.defaults

\* Every entry of the sample but those named is after the step what it was.
OnlyChanged(keys) ==
    /\ DOMAIN ret'.val.f = DOMAIN arg'.f
    /\ \A k \in DOMAIN arg'.f \ keys : ret'.val.f[k] = arg'.f[k]

\* C21: a call of ColorJitter, Normalize, RandomBrightnessContrast or
\* GaussianBlur changes at most the sample's image: the mask, the metadata
\* and the set of keys are what they were.
C21_ImageOnlyFrame ==
    [][/\ op' = "transform_call"
       /\ CalledTransform.t \in
              {"ColorJitter", "Normalize", "RandomBrightnessContrast", "GaussianBlur"}
       => OnlyChanged({"img"})]_vars

\* ColorJitter has been called on a sample with a mask and a filename, and
\* has changed the image.
C21_Witness ==
    /\ op = "transform_call"
    /\ extra.defaults.t = "ColorJitter"
    /\ {"mask", "filename"} \subseteq DOMAIN arg.f
    /\ ret.val.f["img"] # arg.f["img"]
    /\ ret.val.f["mask"] = arg.f["mask"]

\* Height and width of the images CamVid loads.
RawShape == <<720, 960>>

RECURSIVE Shape(_)

\* Height and width of an image or mask: Resize and the crops give the size
\* they were made with, the other transforms keep the size.
Shape(x) ==
    IF x.t = "Tensor" THEN Shape(x.f["of"])
    ELSE IF DOMAIN x.f = {} THEN RawShape
    ELSE IF x.f.by.t \in {"Resize", "CenterCrop", "RandomCrop"}
    THEN <<x.f.by.f["height"].n, x.f.by.f["width"].n>>
    ELSE Shape(x.f.of)

\* C22: a call of Resize, CenterCrop, RandomCrop, HorizontalFlip,
\* VerticalFlip or RandomRotate on a sample with a mask applies the same
\* operation with the same draw to image and mask, which come out with the
\* same height and width; on a sample without a mask it changes the image
\* alone and adds no mask.
C22_SpatialAligned ==
    [][/\ op' = "transform_call"
       /\ CalledTransform.t \in
              {"Resize", "CenterCrop", "RandomCrop", "HorizontalFlip",
               "VerticalFlip", "RandomRotate"}
       => IF "mask" \in DOMAIN arg'.f
          THEN LET img == ret'.val.f["img"]
                   mask == ret'.val.f["mask"]
               IN  /\ img.f.by = CalledTransform /\ img.f.of = arg'.f["img"]
                   /\ mask.f.by = CalledTransform /\ mask.f.of = arg'.f["mask"]
                   /\ img.n = mask.n
                   /\ Shape(img) = Shape(mask)
                   /\ OnlyChanged({"img", "mask"})
          ELSE /\ OnlyChanged({"img"})
               /\ "mask" \notin DOMAIN ret'.val.f]_vars

\* RandomCrop has been called on a sample with a mask when the random stream
\* held two different draws, and image and mask are cropped alike.
C22_Witness ==
    /\ op = "transform_call"
    /\ extra.defaults.t = "RandomCrop"
    /\ "mask" \in DOMAIN arg.f
    /\ rng[1] # rng[2]
    /\ ret.val.f["img"].n = rng[1]
    /\ ret.val.f["mask"].n = rng[1]
    /\ Shape(ret.val.f["mask"]) = <<352, 480>>

\* The first spec of the list that does not build, 0 if all build.
FirstFailure(specs) ==
    LET bad == {i \in DOMAIN specs : build_transform(specs[i]).out.exc # ""}
    IN  IF bad = {} THEN 0 ELSE CHOOSE i \in bad : \A j \in bad : i <= j

\* The processes a dataset was constructed with, as a sequence of specs.
ProcessesOf(kwargs) ==
    IF "processes" \notin DOMAIN kwargs.f \/ kwargs.f["processes"] = PyNone
    THEN <<>>
    ELSE kwargs.f["processes"].f

\* C23: when a spec of the list does not build, Pipeline(...) raises the error
\* of the first such spec and the caller holds the pipeline it held before,
\* never one of the transforms built so far; a dataset constructed with such
\* a list raises the same error and the caller holds the dataset it held
\* before, so none with a partial pipeline attribute.
C23_AllOrNothing ==
    [][/\ op' = "Pipeline" /\ arg' # PyNone /\ FirstFailure(arg'.f) # 0 =>
            /\ ret' = build_transform(arg'.f[FirstFailure(arg'.f)]).out
            /\ ret'.exc # ""
            /\ transforms' = transforms
       /\ op' = "MyDataset" /\ FirstFailure(ProcessesOf(arg')) # 0 =>
            /\ ret' = build_transform(
                          ProcessesOf(arg')[FirstFailure(ProcessesOf(arg'))]).out
            /\ ret'.exc # ""
            /\ dataset' = dataset
       /\ op' \in {"Pipeline", "MyDataset"} /\ ret'.exc = "" =>
            /\ op' = "Pipeline" => Len(transforms') = Len(ProcessesOf(PyDict(
                                       [k \in {"processes"} |-> arg'])))
            /\ op' = "MyDataset" =>
                  Len(dataset'.f["pipeline"].f["transforms"].f)
                      = Len(ProcessesOf(arg'))]_vars

\* A dataset with a pipeline of three transforms is held, and the construction
\* of another one has just failed on the second spec of its processes, after
\* the first was built.
C23_Witness ==
    /\ op = "MyDataset"
    /\ FirstFailure(ProcessesOf(arg)) = 2
    /\ ret.exc = "KeyError"
    /\ dataset # PyNone
    /\ Len(dataset.f["pipeline"].f["transforms"].f) = 3

RECURSIVE ComposedDrawn(_, _, _)

\* tn(...t1(sample)) run by one caller alone, the library drawing draws[i] in
\* the call of ti.
ComposedDrawn(ts, sample, draws) ==
    IF ts = <<>> THEN sample
    ELSE Transform_drawn(ts[Len(ts)],
             ComposedDrawn(SubSeq(ts, 1, Len(ts) - 1), sample,
                           SubSeq(draws, 1, Len(ts) - 1)),
             <<draws[Len(ts)], draws[Len(ts)]>>)

\* C24: with several callers inside one built Pipeline at a time, in any
\* interleaving of their transform calls: no step of a call changes the
\* transform sequence or a transform's parameters; a call starts from its own
\* sample only and a step of one caller leaves the others' samples alone;
\* and each caller gets tn(...t1(its sample)), what it would get alone.
C24_ConcurrentCalls ==
    [][/\ op' # "Pipeline" \/ frames' # frames => transforms' = transforms
       /\ \A c \in 1..MaxCallers :
             /\ c \in DOMAIN frames' /\ c \notin DOMAIN frames =>
                   /\ frames'[c].pc = 1
                   /\ frames'[c].sample = frames'[c].input
                   /\ frames'[c].draws = <<>>
             /\ c \in DOMAIN frames' /\ c \in DOMAIN frames
                  /\ frames'[c] # frames[c] =>
                   /\ \A k \in 1..MaxCallers \ {c} :
                         /\ k \in DOMAIN frames' <=> k \in DOMAIN frames
                         /\ k \in DOMAIN frames => frames'[k] = frames[k]
                   /\ frames'[c].input = frames[c].input
                   /\ frames'[c].sample =
                          ComposedDrawn(SubSeq(transforms, 1, frames[c].pc),
                                        frames[c].input, frames'[c].draws)
       /\ op' = "concurrent_call" =>
             ret' = Returned(ComposedDrawn(transforms', arg', rng'))]_vars

\* Caller 2 has returned from a Pipeline of HorizontalFlip and ToTensor with
\* its own result, a sample with a mask, while caller 1 is between the two
\* transforms on its sample without a mask and with another draw.
C24_Witness ==
    /\ op = "concurrent_call"
    /\ Len(transforms) = 2
    /\ transforms[1].t = "HorizontalFlip"
    /\ "mask" \in DOMAIN arg.f
    /\ rng[1] = 2
    /\ ret.val.f["mask"] = Long(TransformedBy(transforms[2],
                               TransformedBy(transforms[1], arg.f["mask"], 2), 0))
    /\ 1 \in DOMAIN frames
    /\ frames[1].pc = 2
    /\ "mask" \notin DOMAIN frames[1].input.f
    /\ frames[1].draws = <<1>>

C26_AppendOnly ==
    [][/\ \A k \in DictKeys(_module_dict) :
             /\ k \in DictKeys(_module_dict')
             /\ DictGet(_module_dict', k) = DictGet(_module_dict, k)
             /\ DictIndex(_module_dict', k) = DictIndex(_module_dict, k)
       /\ Len(_module_dict') >= Len(_module_dict)
       /\ op' \in {"get", "build_from_cfg"} => _module_dict' = _module_dict
       /\ op' = "register_module" /\ ret'.exc # "" => _module_dict' = _module_dict
       /\ _name' = _name]_vars

\* ModelA is registered to the third class and ModelB to the second, and the
\* first class, another ModelA, has just been refused: ModelA still maps to
\* the class registered first under it.
C26_Witness ==
    /\ op = "register_module"
    /\ arg = ClassOf(1)
    /\ ret.exc = "KeyError"
    /\ Len(_module_dict) = 2
    /\ DictGet(_module_dict, "ModelA") = ClassOf(3)
    /\ DictGet(_module_dict, "ModelB") = ClassOf(2)

\* The lines of the split file that are not blank.
NonBlankLines(path) ==
    {i \in DOMAIN SplitFiles[path] : SplitFiles[path][i] \notin {"", "  "}}

\* A CamVid spec whose split and dataset-info files can be read and whose
\* processes all build.
ReadableCamVidSpec(v) ==
    /\ v.t = "dict"
    /\ DOMAIN v.f = {"type", "img_dir", "label_dir", "split_file",
                     "dataset_info_path", "processes"}
    /\ v.f["type"] = PyStr("CamVid")
    /\ v.f["split_file"].s \in DOMAIN SplitFiles
    /\ v.f["dataset_info_path"].s \in DOMAIN InfoFiles
    /\ FirstFailure(ProcessesOf(v)) = 0

\* C27: build_dataset of a CamVid spec with readable split and dataset-info
\* files returns a CamVid instance whose length is the number of non-blank
\* lines of the split file and whose pipeline is the Pipeline built from
\* processes, and dataset[idx] is that pipeline applied to prepare_data(idx).
C27_CamVidBuilt ==
    [][op' = "build_dataset" /\ ReadableCamVidSpec(arg') =>
          /\ ret'.exc = ""
          /\ ret'.val.t = "CamVid"
          /\ dataset' = ret'.val
          /\ Dataset_len(ret'.val)
                 = Cardinality(NonBlankLines(arg'.f["split_file"].s))
          /\ ret'.val.f["pipeline"]
                 = PipelineObject(Pipeline(arg'.f["processes"]).transforms)
          /\ \A idx \in 0..(Dataset_len(ret'.val) - 1) :
                Dataset_getitem(ret'.val, idx).out =
                    Returned(Composed(Pipeline(arg'.f["processes"]).transforms,
                                      prepare_data(ret'.val, idx).val))]_vars

\* The first check of build_from_cfg the spec v fails with the mapping md, in
\* the order of the claim: 1 not a mapping, 2 no 'type', 3 'type' not a
\* string, 4 'type' not registered; 5 when it passes all four.
FirstDefect(v, md) ==
    IF v.t \notin {"dict", "ConfigDict"} THEN 1
    ELSE IF "type" \notin DOMAIN v.f THEN 2
    ELSE IF v.f["type"].t # "str" THEN 3
    ELSE IF v.f["type"].s \notin DictKeys(md) THEN 4
    ELSE 5

\* C28: build_from_cfg(cfg, registry) reports the first check that fails, in
\* the order mapping, 'type' present, 'type' a string, 'type' registered,
\* whatever else is wrong with the spec; the registry is consulted only after
\* the first three passed and the constructor is called, once, only after
\* all four passed.
C28_ChecksInOrder ==
    [][op' = "build_from_cfg" /\ PassedKeywords(extra') \subseteq BuildParams =>
          LET first == FirstDefect(arg', _module_dict')
          IN  /\ first = 1 => /\ ret'.exc = "TypeError"
                              /\ ret'.msg[1] = "cfg must be a dict, but got "
              /\ first = 2 => /\ ret'.exc = "KeyError"
                              /\ ret'.msg = <<"cfg must contain the key 'type'">>
              /\ first = 3 => /\ ret'.exc = "TypeError"
                              /\ ret'.msg[1] = "type must be a str, but got "
              /\ first = 4 => /\ ret'.exc = "KeyError"
                              /\ ret'.msg[3] = "' is not in the '"
              /\ lookups' = IF first <= 3 THEN <<>> ELSE <<arg'.f["type"].s>>
              /\ Len(calls') = IF first <= 4 THEN 0 ELSE 1
              /\ first = 5 /\ ret'.exc # "" =>
                    ret' = Instantiate(calls'[1].cls, calls'[1].kwargs)]_vars

\* A spec with three defects, a 'type' that is the number 123, that no
\* registered class is named by, and a param2 without the param1 ModelB
\* requires, has been refused for the first of them, with ModelB registered.
C28_Witness ==
    /\ op = "build_from_cfg"
    /\ extra.conv = "positional"
    /\ arg = PyDict([k \in {"type", "param2"} |->
                        IF k = "type" THEN PyInt(123) ELSE PyInt(50)])
    /\ DictContains(_module_dict, "ModelB")
    /\ ret.exc = "TypeError"
    /\ ret.msg[1] = "type must be a str, but got "
    /\ calls = <<>>
    /\ lookups = <<>>

====
